---- MODULE Spec2Model ----
(***************************************************************************)
(* Greedy capacitated charger allocation heuristic of baseline.py with its *)
(* coverage accounting and classification.                                 *)
(*                                                                         *)
(* Trip volumes, demands and money are naturals.  The values the script    *)
(* computes with true division (capacity, trips_served, area_served_trips, *)
(* demand_covered, coverage_percent) are exact rationals <<n, d>> in       *)
(* lowest terms, d > 0; <<0, 0>> stands for a raised ZeroDivisionError.    *)
(*                                                                         *)
(* The budget sweep of model_warm_start.py is modelled beside it; the      *)
(* solver it calls is an external collaborator whose status and slack are  *)
(* chosen nondeterministically.                                            *)
(***************************************************************************)
EXTENDS Integers, Sequences, FiniteSets, TLC

\* ------------------------------------------------------------------------
\* Bounds of the explored inputs
MaxTrips == 1
MaxDemand == 2
MaxBudget == 5
MaxCost == 2
MaxCapSpot == 2
MaxChargersLimit == 2
MaxSweepLen == 3
MaxSweepStep == 2
MaxSlack == 1

SiteOrder == <<"s1", "s2">>
AreaOrder == <<"a1", "a2">>
Areas == {AreaOrder[n] : n \in 1..Len(AreaOrder)}

VARIABLES
    A, P, c, tr,
    BUDGET, STATION_COST, CHARGER_COST, CAP_SPOT, MAX_CHARGERS,
    site_total_demand, sorted_sites,
    remaining_budget, site_chargers, area_served_trips,
    served,
    chargers_to_place, i, j, pc,
    total_demand, demand_covered, coverage_percent,
    fully_covered_areas, partially_covered_areas, not_covered_areas,
    fully_covered_mean_demand, partially_covered_mean_demand,
    partially_covered_mean_demand_covered, not_covered_mean_demand,
    budgets, previous_built_stations, results,
    sweep_budget, result, status, LB, attempt, attempted

data == <<A, P, c, tr>>
params == <<BUDGET, STATION_COST, CHARGER_COST, CAP_SPOT, MAX_CHARGERS>>
ranking == <<site_total_demand, sorted_sites>>
alloc == <<remaining_budget, site_chargers>>
summary == <<total_demand, demand_covered, coverage_percent>>
classes == <<fully_covered_areas, partially_covered_areas, not_covered_areas,
             fully_covered_mean_demand, partially_covered_mean_demand,
             partially_covered_mean_demand_covered, not_covered_mean_demand>>
sweep == <<budgets, previous_built_stations, results,
           sweep_budget, result, status, LB, attempt, attempted>>
vars == <<data, params, ranking, alloc, area_served_trips, served,
          chargers_to_place, i, j, pc, summary, classes, sweep>>

\* ------------------------------------------------------------------------
\* Sequences and sums
Range(s) == {s[n] : n \in 1..Len(s)}

Prefixes(s) == {SubSeq(s, 1, n) : n \in 0..Len(s)}

RECURSIVE SumOver(_, _)
SumOver(S, f) ==
    IF S = {} THEN 0
    ELSE LET x == CHOOSE y \in S : TRUE IN f[x] + SumOver(S \ {x}, f)

Min2(x, y) == IF x <= y THEN x ELSE y
Max2(x, y) == IF x >= y THEN x ELSE y

\* ------------------------------------------------------------------------
\* Exact rationals for the results of Python's true division
\* Euclid's algorithm, as a function so that its argument is evaluated once
GCDOf[p \in Int \X Int] == IF p[2] = 0 THEN p[1] ELSE GCDOf[<<p[2], p[1] % p[2]>>]
GCD(x, y) == GCDOf[<<x, y>>]

Abs(x) == IF x < 0 THEN -x ELSE x

LowestTerms[p \in Int \X Int] ==
    IF p[2] = 0 THEN <<0, 0>>
    ELSE LET g == GCD(Abs(p[1]), p[2]) IN <<p[1] \div g, p[2] \div g>>
Q(n, d) == LowestTerms[<<n, d>>]
QInt(n) == <<n, 1>>
ZeroDivisionError == <<0, 0>>
IsError(x) == x[2] = 0

QAdd(x, y) == Q(x[1] * y[2] + y[1] * x[2], x[2] * y[2])
QSub(x, y) == Q(x[1] * y[2] - y[1] * x[2], x[2] * y[2])
QMul(x, y) == Q(x[1] * y[1], x[2] * y[2])
QLess(x, y) == x[1] * y[2] < y[1] * x[2]
QLeq(x, y) == x[1] * y[2] <= y[1] * x[2]
QMin(x, y) == IF QLeq(x, y) THEN x ELSE y
\* x / y of two non-negative numbers, raising on y = 0
QDiv(x, y) == IF y[1] = 0 THEN ZeroDivisionError ELSE Q(x[1] * y[2], x[2] * y[1])

RECURSIVE QSumOver(_, _)
QSumOver(S, f) ==
    IF S = {} THEN QInt(0)
    ELSE LET x == CHOOSE y \in S : TRUE IN QAdd(f[x], QSumOver(S \ {x}, f))

\* ------------------------------------------------------------------------
\* Step 1: total outgoing traffic per potential site (all keys of tr)
SiteTotalDemand ==
    [site \in Range(P) |-> SumOver(Areas, [area \in Areas |-> tr[<<site, area>>]])]

\* Step 2: sorted(..., key=total, reverse=True): stable, descending
RECURSIVE InsertDescUnstable(_, _, _)
InsertDescUnstable(s, x, key) ==
    IF s = <<>> THEN <<x>>
    ELSE IF key[Head(s)] <= key[x] THEN <<x>> \o s
    ELSE <<Head(s)>> \o InsertDescUnstable(Tail(s), x, key)

RECURSIVE InsertDesc(_, _, _)
InsertDesc(s, x, key) ==
    IF s = <<>> THEN <<x>>
    ELSE IF key[Head(s)] < key[x] THEN <<x>> \o s
    ELSE <<Head(s)>> \o InsertDesc(Tail(s), x, key)

RECURSIVE SortedAsc(_, _)
SortedAsc(items, key) ==
    IF items = <<>> THEN <<>>
    ELSE InsertDesc(SortedAsc(Tail(items), key), Head(items), [x \in DOMAIN key |-> -key[x]])

RECURSIVE SortedDesc(_, _)
SortedDesc(items, key) ==
    IF items = <<>> THEN <<>>
    ELSE InsertDesc(SortedDesc(SubSeq(items, 1, Len(items) - 1), key),
                    items[Len(items)], key)

\* ------------------------------------------------------------------------
\* Step 3: chargers for one site, given its total traffic and the budget left
CannotAffordStation(rem) == rem < STATION_COST + CHARGER_COST

MaxChargersSite(rem) == Min2(MAX_CHARGERS, rem \div CHARGER_COST)

MaxUtilizableNoPlusOne(total, rem) ==
    Min2(total \div CAP_SPOT, MaxChargersSite(rem))

MaxUtilizableIgnoresDemand(total, rem) == MaxChargersSite(rem)

MaxUtilizableChargers(total, rem) ==
    Min2((total \div CAP_SPOT) + 1, MaxChargersSite(rem))

TotalStationCost(k) == STATION_COST + k * CHARGER_COST

ChargersToPlaceNoReclamp(total, rem) == Max2(1, MaxUtilizableChargers(total, rem))

ChargersToPlaceWrongClamp(total, rem) ==
    LET first == Max2(1, MaxUtilizableChargers(total, rem))
    IN  IF TotalStationCost(first) > rem
        THEN (rem - TotalStationCost(first)) \div CHARGER_COST
        ELSE first

ChargersToPlaceNoFloor(total, rem) ==
    LET first == MaxUtilizableChargers(total, rem)
    IN  IF TotalStationCost(first) > rem
        THEN (rem - STATION_COST) \div CHARGER_COST
        ELSE first

\* Line 62: the station with the first charger count does not fit the budget
Reclamped(total, rem) ==
    TotalStationCost(Max2(1, MaxUtilizableChargers(total, rem))) > rem

\* the value of chargers_to_place after the budget re-clamp; < 1 means break
ChargersToPlace(total, rem) ==
    LET first == Max2(1, MaxUtilizableChargers(total, rem))
    IN  IF TotalStationCost(first) > rem
        THEN (rem - STATION_COST) \div CHARGER_COST
        ELSE first

\* ------------------------------------------------------------------------
\* Proportional distribution of one site's capacity to one area
SiteAreaTrips(site) == [area \in Range(A) |-> tr[<<site, area>>]]

TotalSiteTripsRanker(site) == SiteTotalDemand[site]

TotalSiteAreaTrips(site) == SumOver(Range(A), SiteAreaTrips(site))

GetsTrips(site, area, already) ==
    SiteAreaTrips(site)[area] > 0 /\ QLess(already, QInt(c[area]))

Capacity(site, area, k) ==
    QMul(QInt(k * CAP_SPOT),
         QDiv(QInt(SiteAreaTrips(site)[area]), QInt(TotalSiteAreaTrips(site))))

TripsServedFullCapacity(site, area, k, already) ==
    QMin(QInt(k * CAP_SPOT), QSub(QInt(c[area]), already))

TripsServedUncapped(site, area, k, already) == Capacity(site, area, k)

TripsServedAllOrNothing(site, area, k, already) ==
    IF QLeq(Capacity(site, area, k), QSub(QInt(c[area]), already))
    THEN Capacity(site, area, k)
    ELSE QInt(0)

\* trips_served of line 80, or ZeroDivisionError from line 78
TripsServed(site, area, k, already) ==
    LET proportion == QDiv(QInt(SiteAreaTrips(site)[area]),
                           QInt(TotalSiteAreaTrips(site)))
        capacity == QMul(QInt(k * CAP_SPOT), proportion)
    IN  IF IsError(proportion) THEN ZeroDivisionError
        ELSE QMin(capacity, QSub(QInt(c[area]), already))

\* ------------------------------------------------------------------------
\* Coverage summary
TotalDemand == SumOver(Range(A), c)

DemandCovered(servedTrips) ==
    QSumOver(Range(A), [area \in Range(A) |-> QMin(servedTrips[area], QInt(c[area]))])

CoveragePercentFraction(covered, total) ==
    IF total > 0 THEN QDiv(covered, QInt(total)) ELSE QInt(0)

CoveragePercentUnguarded(covered, total) ==
    QMul(QDiv(covered, QInt(total)), QInt(100))

CoveragePercent(covered, total) ==
    IF total > 0 THEN QMul(QDiv(covered, QInt(total)), QInt(100)) ELSE QInt(0)

\* ------------------------------------------------------------------------
\* The whole pass as a function of the budget (same data, same other parameters)
DistributeSite(site, k, servedTrips) ==
    [area \in Range(A) |->
        IF GetsTrips(site, area, servedTrips[area])
        THEN QAdd(servedTrips[area], TripsServed(site, area, k, servedTrips[area]))
        ELSE servedTrips[area]]

RECURSIVE RunSites(_, _, _)
RunSites(sites, rem, servedTrips) ==
    IF sites = <<>> \/ CannotAffordStation(rem) THEN servedTrips
    ELSE LET site == Head(sites)
             k == ChargersToPlace(SiteTotalDemand[site], rem)
         IN  IF k < 1 THEN servedTrips
             ELSE RunSites(Tail(sites), rem - TotalStationCost(k),
                           DistributeSite(site, k, servedTrips))

HeuristicCovered(budget) ==
    DemandCovered(RunSites(SortedDesc(P, SiteTotalDemand), budget,
                           [area \in Range(A) |-> QInt(0)]))

\* Classification
IsFullyCovered(area) == QLeq(QInt(c[area]), area_served_trips[area])
IsPartiallyCovered(area) ==
    QLess(QInt(0), area_served_trips[area]) /\ QLess(area_served_trips[area], QInt(c[area]))
IsNotCovered(area) == area_served_trips[area] = QInt(0)

ClassMeanUnguarded(total, count) == QDiv(total, QInt(count))

\* total / count if count > 0 else 0
ClassMean(total, count) ==
    IF count > 0 THEN QDiv(total, QInt(count)) ELSE QInt(0)

ClassDemand(areas) == QInt(SumOver(Range(areas), c))

ClassServed(areas) == QSumOver(Range(areas), area_served_trips)

\* ------------------------------------------------------------------------
\* Inputs
ValidData ==
    /\ P \in Prefixes(SiteOrder)
    /\ A \in Prefixes(AreaOrder)
    /\ c \in [Range(A) -> 0..MaxDemand]
    /\ tr \in [Range(P) \X Areas -> 0..MaxTrips]

ValidParams ==
    /\ BUDGET \in 0..MaxBudget
    /\ STATION_COST \in 0..MaxCost
    /\ CHARGER_COST \in 1..MaxCost
    /\ CAP_SPOT \in 1..MaxCapSpot
    /\ MAX_CHARGERS \in 0..MaxChargersLimit

Unset ==
    /\ site_total_demand = [site \in Range(P) |-> 0]
    /\ sorted_sites = <<>>
    /\ remaining_budget = 0
    /\ site_chargers = [site \in Range(P) |-> 0]
    /\ area_served_trips = [area \in Range(A) |-> QInt(0)]
    /\ served = [site \in Range(P) |-> [area \in Range(A) |-> QInt(0)]]
    /\ chargers_to_place = 0
    /\ i = 0
    /\ j = 0
    /\ total_demand = 0
    /\ demand_covered = QInt(0)
    /\ coverage_percent = QInt(0)
    /\ fully_covered_areas = <<>>
    /\ partially_covered_areas = <<>>
    /\ not_covered_areas = <<>>
    /\ fully_covered_mean_demand = QInt(0)
    /\ partially_covered_mean_demand = QInt(0)
    /\ partially_covered_mean_demand_covered = QInt(0)
    /\ not_covered_mean_demand = QInt(0)

\* what resolve_model_with_hyperparameters returns without a solution
None == [found |-> FALSE]

\* the baseline script does not run the sweep
NoSweep ==
    /\ budgets = <<>>
    /\ previous_built_stations = <<>>
    /\ results = <<>>
    /\ sweep_budget = 0
    /\ result = None
    /\ status = "LOADED"
    /\ LB = [site \in Range(P) |-> 0]
    /\ attempt = 0
    /\ attempted = <<>>

Init ==
    /\ ValidData
    /\ ValidParams
    /\ Unset
    /\ NoSweep
    /\ pc = "rank"

\* ------------------------------------------------------------------------
RankInPlace ==
    /\ pc = "rank"
    /\ site_total_demand' = SiteTotalDemand
    /\ sorted_sites' = SortedDesc(P, SiteTotalDemand)
    /\ P' = SortedDesc(P, SiteTotalDemand)
    /\ remaining_budget' = BUDGET
    /\ site_chargers' = [site \in Range(P) |-> 0]
    /\ area_served_trips' = [area \in Range(A) |-> QInt(0)]
    /\ i' = 1
    /\ pc' = "alloc"
    /\ UNCHANGED <<A, c, tr, params, sweep, served, chargers_to_place, j, summary, classes>>

\* Lines 33-44: aggregate, sort, initialise the pass
Rank ==
    /\ pc = "rank"
    /\ site_total_demand' = SiteTotalDemand
    /\ sorted_sites' = SortedDesc(P, SiteTotalDemand)
    /\ remaining_budget' = BUDGET
    /\ site_chargers' = [site \in Range(P) |-> 0]
    /\ area_served_trips' = [area \in Range(A) |-> QInt(0)]
    /\ i' = 1
    /\ pc' = "alloc"
    /\ UNCHANGED <<data, params, sweep, served, chargers_to_place, j, summary, classes>>

\* Line 46: the ranked sites are exhausted
LoopEnd ==
    /\ pc = "alloc"
    /\ i > Len(sorted_sites)
    /\ pc' = "summary"
    /\ UNCHANGED <<data, params, sweep, ranking, alloc, area_served_trips, served,
                   chargers_to_place, i, j, summary, classes>>

BudgetSkip ==
    /\ pc = "alloc"
    /\ i <= Len(sorted_sites)
    /\ CannotAffordStation(remaining_budget)
    /\ i' = i + 1
    /\ UNCHANGED <<data, params, sweep, ranking, alloc, area_served_trips, served,
                   chargers_to_place, j, pc, summary, classes>>

BudgetStall ==
    /\ pc = "alloc"
    /\ i <= Len(sorted_sites)
    /\ CannotAffordStation(remaining_budget)
    /\ UNCHANGED vars

\* Lines 47-48: not even one station with one charger fits
BudgetBreak ==
    /\ pc = "alloc"
    /\ i <= Len(sorted_sites)
    /\ CannotAffordStation(remaining_budget)
    /\ pc' = "summary"
    /\ UNCHANGED <<data, params, sweep, ranking, alloc, area_served_trips, served,
                   chargers_to_place, i, j, summary, classes>>

\* Lines 50-73: size the station, pay for it, enter the distribution loop
Allocate ==
    /\ pc = "alloc"
    /\ i <= Len(sorted_sites)
    /\ ~CannotAffordStation(remaining_budget)
    /\ LET site == sorted_sites[i]
           k == ChargersToPlace(site_total_demand[site], remaining_budget)
       IN  IF CHARGER_COST = 0 \/ CAP_SPOT = 0
           THEN /\ pc' = "error"
                /\ UNCHANGED <<alloc, chargers_to_place, i, j>>
           ELSE IF Reclamped(site_total_demand[site], remaining_budget) /\ k < 1
           THEN /\ pc' = "summary"
                /\ chargers_to_place' = k
                /\ UNCHANGED <<alloc, i, j>>
           ELSE /\ remaining_budget' = remaining_budget - TotalStationCost(k)
                /\ site_chargers' = [site_chargers EXCEPT ![site] = k]
                /\ chargers_to_place' = k
                /\ IF A = <<>>
                   THEN i' = i + 1 /\ j' = j /\ pc' = "alloc"
                   ELSE i' = i /\ j' = 1 /\ pc' = "distribute"
    /\ UNCHANGED <<data, params, sweep, ranking, area_served_trips, served, summary, classes>>

\* Lines 75-81: one iteration of the loop over the areas
Distribute ==
    /\ pc = "distribute"
    /\ LET site == sorted_sites[i]
           area == A[j]
           already == area_served_trips[area]
           trips_served == TripsServed(site, area, chargers_to_place, already)
       IN  IF ~GetsTrips(site, area, already)
           THEN /\ UNCHANGED <<area_served_trips, served>>
                /\ IF j = Len(A)
                   THEN i' = i + 1 /\ j' = j /\ pc' = "alloc"
                   ELSE i' = i /\ j' = j + 1 /\ pc' = pc
           ELSE IF IsError(trips_served)
           THEN /\ pc' = "error"
                /\ UNCHANGED <<area_served_trips, served, i, j>>
           ELSE /\ area_served_trips' =
                      [area_served_trips EXCEPT ![area] = QAdd(already, trips_served)]
                /\ served' = [served EXCEPT ![site][area] = trips_served]
                /\ IF j = Len(A)
                   THEN i' = i + 1 /\ j' = j /\ pc' = "alloc"
                   ELSE i' = i /\ j' = j + 1 /\ pc' = pc
    /\ UNCHANGED <<data, params, sweep, ranking, alloc, chargers_to_place, summary, classes>>

\* Lines 83-86: overall demand coverage
Summarize ==
    /\ pc = "summary"
    /\ LET percent == CoveragePercent(DemandCovered(area_served_trips), TotalDemand)
       IN  /\ total_demand' = TotalDemand
           /\ demand_covered' = DemandCovered(area_served_trips)
           /\ IF IsError(percent)
              THEN coverage_percent' = coverage_percent /\ pc' = "error"
              ELSE coverage_percent' = percent /\ pc' = "classify"
    /\ UNCHANGED <<data, params, sweep, ranking, alloc, area_served_trips, served,
                   chargers_to_place, i, j, classes>>

\* Lines 102-135: the three classes of areas and their mean demands
Classify ==
    /\ pc = "classify"
    /\ LET full == SelectSeq(A, IsFullyCovered)
           partial == SelectSeq(A, IsPartiallyCovered)
           none == SelectSeq(A, IsNotCovered)
           full_mean == ClassMean(ClassDemand(full), Len(full))
           partial_mean == ClassMean(ClassDemand(partial), Len(partial))
           partial_mean_covered == ClassMean(ClassServed(partial), Len(partial))
           none_mean == ClassMean(ClassDemand(none), Len(none))
       IN  IF \/ IsError(full_mean) \/ IsError(partial_mean)
              \/ IsError(partial_mean_covered) \/ IsError(none_mean)
           THEN /\ pc' = "error"
                /\ UNCHANGED classes
           ELSE /\ fully_covered_areas' = full
                /\ partially_covered_areas' = partial
                /\ not_covered_areas' = none
                /\ fully_covered_mean_demand' = full_mean
                /\ partially_covered_mean_demand' = partial_mean
                /\ partially_covered_mean_demand_covered' = partial_mean_covered
                /\ not_covered_mean_demand' = none_mean
                /\ pc' = "done"
    /\ UNCHANGED <<data, params, sweep, ranking, alloc, area_served_trips, served,
                   chargers_to_place, i, j, summary>>

Next ==
    \/ Rank
    \/ LoopEnd
    \/ BudgetBreak
    \/ Allocate
    \/ Distribute
    \/ Summarize
    \/ Classify

Spec == Init /\ [][Next]_vars

\* The same runs when the interpreter always executes the next statement
FairSpec == Init /\ [][Next]_vars /\ WF_vars(Next)

\* ------------------------------------------------------------------------
\* The same script with an invalid configuration: a capacity per charger
\* that is zero or negative, or a negative budget
InvalidParams ==
    /\ BUDGET \in -1..MaxBudget
    /\ STATION_COST \in 0..MaxCost
    /\ CHARGER_COST \in 1..MaxCost
    /\ CAP_SPOT \in -1..MaxCapSpot
    /\ MAX_CHARGERS \in 0..MaxChargersLimit
    /\ (CAP_SPOT <= 0 \/ BUDGET < 0)

InitInvalid ==
    /\ ValidData
    /\ InvalidParams
    /\ Unset
    /\ NoSweep
    /\ pc = "rank"

SpecInvalid == InitInvalid /\ [][Next]_vars

\* ------------------------------------------------------------------------
\* The count-budget allocator with the priority-greedy distributor, on the
\* data of the worked scenario; BUDGET is a number of chargers.  Ranking,
\* summary and classification are the steps above.
CountMaxUtilizable(total) == total \div CAP_SPOT

CountChargersToBuild(total, rem) ==
    Min2(CountMaxUtilizable(total), Min2(MAX_CHARGERS, rem))

\* trips the site serves to the area when its capacity is handed out along
\* order, the areas by descending trip edge
RECURSIVE GreedyServedTo(_, _, _, _)
GreedyServedTo(site, order, capacity, area) ==
    IF order = <<>> THEN 0
    ELSE LET give == Min2(tr[<<site, Head(order)>>], capacity)
         IN  IF Head(order) = area THEN give
             ELSE GreedyServedTo(site, Tail(order), capacity - give, area)

ScenarioInit ==
    /\ P \in {<<"s1", "s2">>, <<"s2", "s1">>}
    /\ A = <<"a1", "a2">>
    /\ c = [area \in {"a1", "a2"} |-> IF area = "a1" THEN 100 ELSE 50]
    /\ tr = [edge \in {"s1", "s2"} \X {"a1", "a2"} |->
                IF edge = <<"s1", "a1">> THEN 80
                ELSE IF edge = <<"s1", "a2">> THEN 40
                ELSE IF edge = <<"s2", "a1">> THEN 20
                ELSE 10]
    /\ BUDGET \in 0..MaxBudget
    /\ MAX_CHARGERS \in 0..MaxChargersLimit
    /\ CAP_SPOT = 50
    /\ STATION_COST = 0
    /\ CHARGER_COST = 1
    /\ Unset
    /\ NoSweep
    /\ pc = "rank"

\* only an exhausted budget halts the loop
CountBreak ==
    /\ pc = "alloc"
    /\ i <= Len(sorted_sites)
    /\ remaining_budget <= 0
    /\ pc' = "summary"
    /\ UNCHANGED <<data, params, sweep, ranking, alloc, area_served_trips, served,
                   chargers_to_place, i, j, summary, classes>>

\* a site may get zero chargers without halting the loop
CountAllocate ==
    /\ pc = "alloc"
    /\ i <= Len(sorted_sites)
    /\ remaining_budget > 0
    /\ LET site == sorted_sites[i]
           k == CountChargersToBuild(site_total_demand[site], remaining_budget)
       IN  /\ remaining_budget' = remaining_budget - k
           /\ site_chargers' = [site_chargers EXCEPT ![site] = k]
           /\ chargers_to_place' = k
    /\ pc' = "distribute"
    /\ UNCHANGED <<data, params, sweep, ranking, area_served_trips, served, i, j,
                   summary, classes>>

GreedyDistribute ==
    /\ pc = "distribute"
    /\ LET site == sorted_sites[i]
           order == SortedDesc(A, SiteAreaTrips(site))
           give == [area \in Range(A) |->
                      QInt(GreedyServedTo(site, order, chargers_to_place * CAP_SPOT, area))]
       IN  /\ served' = [served EXCEPT ![site] = give]
           /\ area_served_trips' =
                 [area \in Range(A) |-> QAdd(area_served_trips[area], give[area])]
    /\ i' = i + 1
    /\ pc' = "alloc"
    /\ UNCHANGED <<data, params, sweep, ranking, alloc, chargers_to_place, j, summary, classes>>

ScenarioNext ==
    \/ Rank
    \/ LoopEnd
    \/ CountBreak
    \/ CountAllocate
    \/ GreedyDistribute
    \/ Summarize
    \/ Classify

SpecScenario == ScenarioInit /\ [][ScenarioNext]_vars

\* ------------------------------------------------------------------------
\* The warm-start budget sweep (model_warm_start.py).  The solver is an
\* external collaborator: the status it ends in and the slack of the budget
\* constraint are any of the values it can return.
baseline == <<data, params, ranking, alloc, area_served_trips, served,
              chargers_to_place, i, j, summary, classes>>

\* list(range(start, stop, step)) for a positive step
RECURSIVE RangeList(_, _, _)
RangeList(start, stop, step) ==
    IF start >= stop THEN <<>>
    ELSE <<start>> \o RangeList(start + step, stop, step)

Statuses == {"OPTIMAL", "SUBOPTIMAL", "INFEASIBLE", "TIME_LIMIT"}

\* model.status in [gp.GRB.OPTIMAL, gp.GRB.SUBOPTIMAL]
Solved(st) == st \in {"OPTIMAL", "SUBOPTIMAL"}

\* previous_built_stations.get(site, 0)
Get(dict, key) == IF key \in DOMAIN dict THEN dict[key] ELSE 0

\* if result:
Truthy(r) == r # None

SweepInit ==
    /\ P = SiteOrder
    /\ A = AreaOrder
    /\ c = [area \in Range(AreaOrder) |-> 1]
    /\ tr = [edge \in Range(SiteOrder) \X Areas |-> 1]
    /\ BUDGET = 0
    /\ STATION_COST = 1
    /\ CHARGER_COST = 1
    /\ CAP_SPOT = 1
    /\ MAX_CHARGERS = MaxChargersLimit
    /\ Unset
    /\ \E start \in 1..MaxSweepStep, step \in 1..MaxSweepStep, len \in 0..MaxSweepLen :
          budgets = RangeList(start, start + len * step, step)
    /\ previous_built_stations \in
          UNION {[sites -> 0..MaxChargersLimit] : sites \in SUBSET Range(SiteOrder)}
    /\ results = <<>>
    /\ sweep_budget = 0
    /\ result = None
    /\ status = "LOADED"
    /\ LB = [site \in Range(SiteOrder) |-> 0]
    /\ attempt = 1
    /\ attempted = <<>>
    /\ pc = "sweep"

\* Lines 124-137 and 6-88: the next budget is re-solved with the previous
\* allocation as lower bound of the build variables
resolve_model_with_hyperparameters ==
    /\ pc = "sweep"
    /\ attempt <= Len(budgets)
    /\ \E st \in Statuses, slack \in 0..Min2(MaxSlack, budgets[attempt]) :
          LET floor == [site \in Range(P) |-> Get(previous_built_stations, site)]
          IN  /\ sweep_budget' = budgets[attempt]
              /\ LB' = floor
              /\ status' = st
              /\ result' = IF Solved(st)
                           THEN [found |-> TRUE,
                                 total_cost_used |-> budgets[attempt] - slack]
                           ELSE None
              /\ attempted' = Append(attempted,
                                     [budget |-> budgets[attempt], LB |-> floor,
                                      status |-> st])
    /\ pc' = "record"
    /\ UNCHANGED <<baseline, budgets, previous_built_stations, results, attempt>>

AppendResultOrStop ==
    /\ pc = "record"
    /\ IF Truthy(result)
       THEN /\ results' = Append(results,
                                 [budget |-> sweep_budget,
                                  total_cost_used |-> result.total_cost_used])
            /\ attempt' = attempt + 1
            /\ pc' = "sweep"
       ELSE /\ results' = results
            /\ attempt' = attempt
            /\ pc' = "saved"
    /\ UNCHANGED <<baseline, budgets, previous_built_stations, sweep_budget,
                   result, status, LB, attempted>>

\* Lines 139-149: a result is appended, a failure is only reported
AppendResult ==
    /\ pc = "record"
    /\ results' = IF Truthy(result)
                  THEN Append(results,
                              [budget |-> sweep_budget,
                               total_cost_used |-> result.total_cost_used])
                  ELSE results
    /\ attempt' = attempt + 1
    /\ pc' = "sweep"
    /\ UNCHANGED <<baseline, budgets, previous_built_stations, sweep_budget,
                   result, status, LB, attempted>>

\* Lines 151-154: the list of budgets is exhausted
SweepEnd ==
    /\ pc = "sweep"
    /\ attempt > Len(budgets)
    /\ pc' = "saved"
    /\ UNCHANGED <<baseline, sweep>>

SweepNext ==
    \/ resolve_model_with_hyperparameters
    \/ AppendResult
    \/ SweepEnd

SpecSweep == SweepInit /\ [][SweepNext]_vars

\* ------------------------------------------------------------------------
\* Properties

Started == pc # "rank"
Finished == pc = "done"

\* the areas of a list of the classification
PositionIn(s, x) == CHOOSE n \in 1..Len(s) : s[n] = x

\* total outbound trip volume of a site, edge by edge
Outbound(site) == SumOver({site} \X Areas, tr)

\* trip volume from a site to the areas of the area set
EdgesToAreas(site) == SumOver({site} \X Range(A), tr)

\* capacity bought for a site
SiteCapacity(site) == site_chargers[site] * CAP_SPOT

\* trips the site served, over all areas
SiteServed(site) == QSumOver(Range(A), served[site])

\* C1: non-oversell: 0 <= Served(site, area) <= TripEdge(site, area) for
\* every site and area, in every state of the run.
NonOversell ==
    \A site \in Range(P) : \A area \in Range(A) :
        /\ QLeq(QInt(0), served[site][area])
        /\ QLeq(served[site][area], QInt(tr[<<site, area>>]))

\* C2: capacity invariant: the trips served from a site, summed over the
\* areas, never exceed chargers_built(site) x capacity_per_charger; a site
\* without chargers serves nothing.
CapacityInvariant ==
    \A site \in Range(P) :
        /\ QLeq(SiteServed(site), QInt(SiteCapacity(site)))
        /\ site_chargers[site] = 0 => SiteServed(site) = QInt(0)

CapacityWitness ==
    /\ Finished
    /\ \E site \in Range(P) :
        /\ site_chargers[site] >= 1
        /\ SiteServed(site) = QInt(SiteCapacity(site))
        /\ \A area \in Range(A) : QLess(QInt(0), served[site][area])
        /\ Len(A) = 2

\* C3: under the proportional distributor served_total(area) <= demand(area)
\* in every state of the run, before any capping by the summary.
DemandNotExceeded ==
    \A area \in Range(A) : QLeq(area_served_trips[area], QInt(c[area]))

DemandWitness ==
    /\ Finished
    /\ Len(sorted_sites) = 2
    /\ \E area \in Range(A) :
        /\ \A site \in Range(P) : site_chargers[site] >= 1 /\ tr[<<site, area>>] > 0
        /\ area_served_trips[area] = QInt(c[area])
        /\ QLess(served[sorted_sites[2]][area],
                 Capacity(sorted_sites[2], area, site_chargers[sorted_sites[2]]))
        /\ QLess(QInt(0), served[sorted_sites[2]][area])

\* C4: cost-budget accounting: remaining_budget >= 0 in every state of the
\* pass, and the money spent is exactly the sum over the built sites of
\* station_cost + chargers_built(site) x charger_cost.
BuiltSites == {site \in Range(P) : site_chargers[site] >= 1}

BudgetAccounting ==
    Started =>
        /\ remaining_budget >= 0
        /\ BUDGET - remaining_budget =
              SumOver(BuiltSites,
                      [site \in BuiltSites |->
                          STATION_COST + site_chargers[site] * CHARGER_COST])

BudgetWitness ==
    /\ Finished
    /\ Cardinality(BuiltSites) = 2
    /\ STATION_COST > 0
    /\ remaining_budget = 0
    /\ \E site \in BuiltSites :
          site_chargers[site] < Min2((Outbound(site) \div CAP_SPOT) + 1, MAX_CHARGERS)

\* C5: per-site cap: the final allocation of every site is an integer with
\* 0 <= chargers_built(site) <= max_chargers_per_site.
PerSiteCap ==
    Finished => \A site \in Range(P) : site_chargers[site] \in 0..MAX_CHARGERS

\* C6: budget monotonicity: on the same data and parameters, a run with a
\* smaller budget never covers more demand and a run with a larger budget
\* never covers less than the run at hand.
BudgetMonotone ==
    Finished =>
        \A budget \in 0..MaxBudget :
            /\ budget <= BUDGET => QLeq(HeuristicCovered(budget), demand_covered)
            /\ budget >= BUDGET => QLeq(demand_covered, HeuristicCovered(budget))

MonotoneWitness ==
    /\ Finished
    /\ \E b1, b2 \in 0..MaxBudget :
        /\ b1 < BUDGET /\ BUDGET < b2
        /\ QLess(HeuristicCovered(b1), demand_covered)
        /\ QLess(demand_covered, HeuristicCovered(b2))

\* C7: partition completeness: every area is in exactly one of the classes
\* fully covered, partially covered, not covered; the three counts sum to the
\* number of areas.
PartitionComplete ==
    Finished =>
        /\ Len(fully_covered_areas) + Len(partially_covered_areas)
              + Len(not_covered_areas) = Len(A)
        /\ Range(fully_covered_areas) \cap Range(partially_covered_areas) = {}
        /\ Range(fully_covered_areas) \cap Range(not_covered_areas) = {}
        /\ Range(partially_covered_areas) \cap Range(not_covered_areas) = {}

\* C8: the ranked sequence is a permutation of the candidate sites in
\* non-increasing order of total outbound trip volume, and sites with equal
\* totals keep their relative order of the input collection.
RankerSorted ==
    Started =>
        /\ Len(sorted_sites) = Len(P)
        /\ Range(sorted_sites) = Range(P)
        /\ \A m, n \in 1..Len(sorted_sites) :
              m < n =>
                /\ Outbound(sorted_sites[m]) >= Outbound(sorted_sites[n])
                /\ Outbound(sorted_sites[m]) = Outbound(sorted_sites[n])
                      => PositionIn(P, sorted_sites[m]) < PositionIn(P, sorted_sites[n])

RankerWitness ==
    /\ Started
    /\ Len(P) = 2
    /\ Outbound(P[1]) = Outbound(P[2])
    /\ Outbound(P[1]) > 0
    /\ sorted_sites = P

\* C9: demand_covered is the sum over the areas of
\* min(served_total(area), demand(area)); coverage_percent is
\* 100 x demand_covered / total_demand, and 0 when total_demand = 0.
CappedServed(area) ==
    IF QLess(area_served_trips[area], QInt(c[area]))
    THEN area_served_trips[area]
    ELSE QInt(c[area])

CoverageSummary ==
    pc \in {"classify", "done"} =>
        /\ total_demand = SumOver(Range(A), c)
        /\ demand_covered = QSumOver(Range(A), [area \in Range(A) |-> CappedServed(area)])
        /\ total_demand > 0 =>
              coverage_percent[1] * demand_covered[2] * total_demand
                  = 100 * demand_covered[1] * coverage_percent[2]
        /\ total_demand = 0 => coverage_percent = QInt(0)

CoverageWitness ==
    /\ Finished
    /\ QLess(QInt(0), coverage_percent)
    /\ QLess(coverage_percent, QInt(100))
    /\ demand_covered[2] > 1

\* C10: with zero areas the run raises no error and ends with
\* coverage_percent = 0, whatever the sites, trips and parameters.
ZeroAreas ==
    A = <<>> =>
        /\ pc # "error"
        /\ Finished => coverage_percent = QInt(0)

ZeroAreasWitness ==
    /\ A = <<>>
    /\ Finished
    /\ Cardinality(BuiltSites) = 2

\* C11: empty input: with zero areas or zero sites nothing is built, no
\* budget is spent, no trips are served, and the summary reports zero
\* coverage without an error.
EmptyInput ==
    (A = <<>> \/ P = <<>>) =>
        /\ pc # "error"
        /\ Started => remaining_budget = BUDGET
        /\ \A site \in Range(P) : site_chargers[site] = 0
        /\ \A area \in Range(A) : area_served_trips[area] = QInt(0)
        /\ Finished => coverage_percent = QInt(0)

\* C12: invalid configuration: with capacity_per_charger <= 0 or a negative
\* budget the run fails before any site gets chargers and before any trips
\* are served, and never reaches a coverage result.
InvalidFailsFast ==
    (CAP_SPOT <= 0 \/ BUDGET < 0) =>
        /\ \A site \in Range(P) : site_chargers[site] = 0
        /\ \A area \in Range(A) : area_served_trips[area] = QInt(0)
        /\ pc \notin {"classify", "done"}

\* C13: zero-valued entities are not faults: no run with valid parameters
\* raises an error; a site with no traffic (no edges at all, or none to the
\* areas of the set) serves 0 trips to every area; a total demand of 0 gives
\* coverage 0 and an empty class gives mean 0.
ZeroNotFault ==
    /\ pc # "error"
    /\ \A site \in Range(P) :
          Outbound(site) = 0 \/ EdgesToAreas(site) = 0 =>
              \A area \in Range(A) : served[site][area] = QInt(0)
    /\ pc \in {"classify", "done"} /\ total_demand = 0 => coverage_percent = QInt(0)
    /\ Finished =>
          /\ fully_covered_areas = <<>> => fully_covered_mean_demand = QInt(0)
          /\ partially_covered_areas = <<>> =>
                /\ partially_covered_mean_demand = QInt(0)
                /\ partially_covered_mean_demand_covered = QInt(0)
          /\ not_covered_areas = <<>> => not_covered_mean_demand = QInt(0)

ZeroNotFaultWitness ==
    /\ Finished
    /\ A # <<>>
    /\ total_demand = 0
    /\ partially_covered_areas = <<>>
    /\ \E site \in BuiltSites : Outbound(site) = 0
    /\ \E site \in BuiltSites : EdgesToAreas(site) = 0 /\ Outbound(site) > 0

\* C14: frame: no step changes the demand model or the parameters; the
\* pass changes only the budget left, the allocation and the served
\* accumulators; the summary and the classification change neither the
\* allocation nor the served trips.
FrameUnchanged ==
    [][/\ UNCHANGED <<data, params>>
       /\ pc \in {"alloc", "distribute"} => UNCHANGED <<ranking, summary, classes>>
       /\ pc \in {"summary", "classify"} =>
              UNCHANGED <<ranking, alloc, area_served_trips, served>>]_vars

FrameWitness ==
    /\ Finished
    /\ sorted_sites # P
    /\ remaining_budget < BUDGET
    /\ \E area \in Range(A) : QLess(QInt(0), area_served_trips[area])
    /\ fully_covered_areas # <<>>

\* C15: worked scenario (count budget 2, priority-greedy, capacity 50 per
\* charger, at most 2 per site): the ranker yields [s1, s2], s1 gets 2
\* chargers and s2 none, served_total is a1 = 80 and a2 = 20, 100 of 150 is
\* covered, and both areas are partially covered, none fully, none uncovered.
ScenarioResult ==
    (BUDGET = 2 /\ MAX_CHARGERS = 2) =>
        /\ Started => sorted_sites = <<"s1", "s2">>
        /\ Finished =>
              /\ site_chargers = [site \in {"s1", "s2"} |-> IF site = "s1" THEN 2 ELSE 0]
              /\ area_served_trips =
                    [area \in {"a1", "a2"} |-> IF area = "a1" THEN QInt(80) ELSE QInt(20)]
              /\ total_demand = 150
              /\ demand_covered = QInt(100)
              /\ coverage_percent = <<200, 3>>
              /\ fully_covered_areas = <<>>
              /\ partially_covered_areas = <<"a1", "a2">>
              /\ not_covered_areas = <<>>

ScenarioWitness ==
    /\ BUDGET = 2
    /\ MAX_CHARGERS = 2
    /\ P = <<"s2", "s1">>
    /\ Finished
    /\ remaining_budget = 0
    /\ served["s1"]["a2"] = QInt(20)

\* C16: cost-budget charger count: a processed site gets
\* max(1, min(floor(total_trips/capacity_per_charger) + 1, max_chargers_per_site,
\* floor((remaining_budget - station_cost)/charger_cost))) chargers, clamped
\* down so that the station with its chargers is within the remaining budget.
SpecChargers(total, rem) ==
    LET affordable == (rem - STATION_COST) \div CHARGER_COST
        utilizable == Min2((total \div CAP_SPOT) + 1, Min2(MAX_CHARGERS, affordable))
        wanted == Max2(1, utilizable)
    IN  IF STATION_COST + wanted * CHARGER_COST > rem THEN affordable ELSE wanted

ChargerCount ==
    [][(/\ pc = "alloc"
        /\ i <= Len(sorted_sites)
        /\ remaining_budget >= STATION_COST + CHARGER_COST) =>
          LET site == sorted_sites[i]
              k == SpecChargers(Outbound(site), remaining_budget)
          IN  /\ site_chargers'[site] = k
              /\ chargers_to_place' = k
              /\ STATION_COST + k * CHARGER_COST <= remaining_budget
              /\ remaining_budget' = remaining_budget - (STATION_COST + k * CHARGER_COST)]_vars

\* a site whose count was limited by the money left after the station cost,
\* where the budget alone (line 51) would have allowed one charger more
ChargerCountWitness ==
    /\ pc = "distribute"
    /\ LET site == sorted_sites[i]
           before == remaining_budget + STATION_COST + chargers_to_place * CHARGER_COST
       IN  /\ chargers_to_place = (before - STATION_COST) \div CHARGER_COST
           /\ chargers_to_place < before \div CHARGER_COST
           /\ chargers_to_place < Min2((Outbound(site) \div CAP_SPOT) + 1, MAX_CHARGERS)
           /\ i = 2

\* C17: terminal halt: the pass stops at the first ranked site that cannot
\* pay for one station with one charger; that site and every later one get
\* no chargers and serve no trips, and the loop never passes over an
\* unfunded site to fund a later one.
Halted == pc \in {"summary", "classify", "done"} /\ i <= Len(sorted_sites)

Unserved(site) ==
    /\ site_chargers[site] = 0
    /\ \A area \in Range(A) : served[site][area] = QInt(0)

TerminalHalt ==
    Started =>
        /\ \A n \in 1..Len(sorted_sites) :
              /\ n < i => site_chargers[sorted_sites[n]] >= 1
              /\ n > i => Unserved(sorted_sites[n])
        /\ Halted =>
              /\ remaining_budget < STATION_COST + CHARGER_COST
              /\ \A n \in i..Len(sorted_sites) : Unserved(sorted_sites[n])

TerminalHaltWitness ==
    /\ Finished
    /\ Halted
    /\ i = 2
    /\ remaining_budget > 0
    /\ Outbound(sorted_sites[2]) > 0
    /\ \E area \in Range(A) :
          tr[<<sorted_sites[2], area>>] > 0 /\ QLess(area_served_trips[area], QInt(c[area]))

\* C18: proportional distribution step: an area with a nonzero edge from the
\* site and unmet demand is credited
\* min(k x capacity_per_charger x TripEdge(site, area) / total_trips(site),
\*     demand(area) - already_served(area)),
\* every other area nothing.  The original statement takes total_trips(site)
\* to be the ranker's total (all edges of the site); the amended one takes
\* the sum of the site's edges to the areas of the area set.
Credit(site, area, k, total) ==
    IF tr[<<site, area>>] > 0 /\ QLess(area_served_trips[area], QInt(c[area]))
    THEN QMin(Q(k * CAP_SPOT * tr[<<site, area>>], total),
              QSub(QInt(c[area]), area_served_trips[area]))
    ELSE QInt(0)

DistributionStepRanker ==
    [][pc = "distribute" =>
          LET site == sorted_sites[i]
              area == A[j]
          IN  area_served_trips'[area] =
                 QAdd(area_served_trips[area],
                      Credit(site, area, site_chargers[site], Outbound(site)))]_vars

DistributionStep ==
    [][pc = "distribute" =>
          LET site == sorted_sites[i]
              area == A[j]
          IN  /\ area_served_trips'[area] =
                    QAdd(area_served_trips[area],
                         Credit(site, area, site_chargers[site], EdgesToAreas(site)))
              /\ \A other \in Range(A) \ {area} :
                    area_served_trips'[other] = area_served_trips[other]]_vars

\* a site with an edge outside the area set has credited a share of its
\* capacity that is neither 0 nor capped by the demand
DistributionWitness ==
    /\ pc = "alloc"
    /\ i = 2
    /\ LET site == sorted_sites[1]
       IN  /\ EdgesToAreas(site) < Outbound(site)
           /\ \E area \in Range(A) :
                 /\ served[site][area] =
                       Q(site_chargers[site] * CAP_SPOT * tr[<<site, area>>], EdgesToAreas(site))
                 /\ QLess(QInt(0), served[site][area])
                 /\ QLess(served[site][area], QInt(c[area]))

\* C19: termination: every run reaches its final state, after at most
\* |sites| iterations of the outer loop, each with at most |areas|
\* distribution steps.
Terminates ==
    /\ <>Finished
    /\ [](i <= Len(P) + 1 /\ j <= Len(A))

TerminatesWitness ==
    /\ Finished
    /\ Len(P) = 2
    /\ Len(A) = 2
    /\ i = Len(P) + 1
    /\ j = Len(A)
    /\ remaining_budget = 0

\* C20: the pass ends only because the ranked sites are exhausted or because
\* remaining_budget < station_cost + charger_cost: the break after the
\* re-clamp is never taken, every computed charger count is at least 1, and
\* at the end of a halted pass no unprocessed site can pay for one station
\* with one charger.
PassEnded == pc \in {"summary", "classify", "done"}

HaltReason ==
    /\ PassEnded =>
          \/ i > Len(sorted_sites)
          \/ remaining_budget < STATION_COST + CHARGER_COST
    /\ Started /\ i > 1 => chargers_to_place >= 1
    /\ PassEnded =>
          \A n \in 1..Len(sorted_sites) :
              site_chargers[sorted_sites[n]] = 0 =>
                  remaining_budget < TotalStationCost(1)

HaltReasonWitness ==
    /\ Finished
    /\ Halted
    /\ i = 2
    /\ STATION_COST > 0
    /\ remaining_budget > 0
    /\ site_chargers[sorted_sites[1]]
          < Min2((Outbound(sorted_sites[1]) \div CAP_SPOT) + 1, MAX_CHARGERS)

\* C21: in every state of the pass the sites with at least one charger are
\* exactly the sites processed so far, a prefix of the ranked sequence; every
\* processed site has at least 1 charger and has paid the station cost, also
\* a site whose total trip volume is 0.
ProcessedCount ==
    IF pc = "rank" THEN 0 ELSE IF pc = "distribute" THEN i ELSE i - 1

Processed == {sorted_sites[n] : n \in 1..ProcessedCount}

stations_built == Cardinality(BuiltSites)

ProcessedPrefix ==
    Started =>
        /\ ProcessedCount \in 0..Len(sorted_sites)
        /\ BuiltSites = Processed
        /\ stations_built = ProcessedCount
        /\ \A site \in Processed : site_chargers[site] >= 1
        /\ BUDGET - remaining_budget =
              SumOver(Processed,
                      [site \in Processed |-> TotalStationCost(site_chargers[site])])

ProcessedPrefixWitness ==
    /\ Finished
    /\ Len(sorted_sites) = 2
    /\ ProcessedCount = 1
    /\ site_total_demand[sorted_sites[1]] = 0
    /\ site_chargers[sorted_sites[1]] = 1
    /\ site_chargers[sorted_sites[2]] = 0
    /\ STATION_COST > 0

\* C22: for the allocation of a finished pass, the served total of every area
\* is min(demand(area), sum over the sites of chargers_built(site) x
\* capacity_per_charger x share(site, area)), and processing the built sites
\* in any other order gives every area the same total.
Proportion(site, area) ==
    IF SiteAreaTrips(site)[area] = 0 THEN QInt(0)
    ELSE QDiv(QInt(SiteAreaTrips(site)[area]), QInt(TotalSiteAreaTrips(site)))

OfferedTo(area) ==
    QSumOver(Range(P),
             [site \in Range(P) |->
                 QMul(QInt(site_chargers[site] * CAP_SPOT), Proportion(site, area))])

RECURSIVE DistributeInOrder(_, _)
DistributeInOrder(order, servedTrips) ==
    IF order = <<>> THEN servedTrips
    ELSE DistributeInOrder(Tail(order),
                           DistributeSite(Head(order), site_chargers[Head(order)],
                                          servedTrips))

Orders(sites) ==
    {order \in [1..Cardinality(sites) -> sites] :
        \A m, n \in 1..Cardinality(sites) : order[m] = order[n] => m = n}

OrderIndependent ==
    Finished =>
        \A area \in Range(A) :
            /\ area_served_trips[area] = QMin(QInt(c[area]), OfferedTo(area))
            /\ \A order \in Orders(BuiltSites) :
                  DistributeInOrder(order, [a \in Range(A) |-> QInt(0)])[area]
                      = area_served_trips[area]

OrderIndependentWitness ==
    /\ Finished
    /\ Len(sorted_sites) = 2
    /\ \E area \in Range(A) :
          /\ QLess(QInt(0), served[sorted_sites[1]][area])
          /\ QLess(QInt(0), served[sorted_sites[2]][area])
          /\ QLess(served[sorted_sites[2]][area],
                   Capacity(sorted_sites[2], area, site_chargers[sorted_sites[2]]))
          /\ QLess(QInt(c[area]), OfferedTo(area))

\* C23: no site is over-provisioned by more than one charger: in every
\* state, (chargers_built(site) - 1) x capacity_per_charger <=
\* total_trips(site) for every site.
AtMostOneSpare ==
    Started =>
        \A site \in Range(P) :
            (site_chargers[site] - 1) * CAP_SPOT <= site_total_demand[site]

AtMostOneSpareWitness ==
    /\ Finished
    /\ \E site \in Range(P) :
          /\ site_chargers[site] = 2
          /\ site_total_demand[site] >= CAP_SPOT
          /\ site_total_demand[site] < site_chargers[site] * CAP_SPOT
    /\ \E site \in Range(P) :
          /\ site_chargers[site] = 1
          /\ site_total_demand[site] = 0

\* C24: in the warm-start budget sweep a budget whose re-solve ends in a
\* status other than optimal/suboptimal yields no result entry and does not
\* stop the sweep; every budget of the list is attempted exactly once, in
\* ascending order; the recorded results are in ascending budget order with
\* at most one entry per budget; and the previous allocation used as lower
\* bound is the same for every budget.
SolvedAttempt(a) == Solved(a.status)

Handled ==
    SubSeq(attempted, 1, IF pc = "record" THEN Len(attempted) - 1 ELSE Len(attempted))

BudgetsOf(s) == [k \in 1..Len(s) |-> s[k].budget]

SweepRecords ==
    /\ \A k \in 1..(Len(budgets) - 1) : budgets[k] < budgets[k + 1]
    /\ Len(attempted) <= Len(budgets)
    /\ BudgetsOf(attempted) = SubSeq(budgets, 1, Len(attempted))
    /\ pc = "saved" => Len(attempted) = Len(budgets)
    /\ BudgetsOf(results) = BudgetsOf(SelectSeq(Handled, SolvedAttempt))
    /\ \A k, l \in 1..Len(results) : k < l => results[k].budget < results[l].budget
    /\ \A k \in 1..Len(attempted) :
          attempted[k].LB = [site \in Range(P) |-> Get(previous_built_stations, site)]

SweepRecordsWitness ==
    /\ pc = "saved"
    /\ Len(budgets) = 3
    /\ attempted[1].status = "INFEASIBLE"
    /\ attempted[2].status = "OPTIMAL"
    /\ attempted[3].status = "TIME_LIMIT"
    /\ Len(results) = 1
    /\ results[1].budget = budgets[2]
    /\ \E site \in DOMAIN previous_built_stations : previous_built_stations[site] > 0

\* Cross-check of the two renderings of the pass.
RunAgrees == Finished => demand_covered = HeuristicCovered(BUDGET)

NoError == pc # "error"

====
